---- MODULE Spec2Model ----
(***************************************************************************)
(* FlyCamp console (static/js/console.js): the initialisation and launch   *)
(* orchestration.  One connectivity check runs in the background while the *)
(* preview video plays, its result is stored in window.__initStoredResults *)
(* behind the flags __initStarted / __initReady / __initSuccess, two       *)
(* pollers (waitReady, maybeStart) wait for readiness, the stored result   *)
(* is replayed step by step, and the game is launched.                     *)
(*                                                                         *)
(* JavaScript runs handlers to completion: every action below is one       *)
(* handler, timer callback or promise continuation, from the point where   *)
(* it is entered to its next await / setTimeout / return.  Timers and      *)
(* network replies are delivered in any order.                             *)
(***************************************************************************)
EXTENDS Integers, Sequences, FiniteSets, TLC

\* ------------------------------------------------------------------ bounds
MaxChecks   == 2   \* connectivity-check requests issued in one behaviour
MaxProceeds == 1   \* proceedAfterPreview invocations in one behaviour
MaxRespLen  == 2   \* steps in one server response (single-cycle specification)
MaxGame     == 2   \* game cards 1..MaxGame are on the slider
MaxPolls    == 3   \* /game_done requests one completion poll issues
MaxRetryChecks == 3  \* connectivity-check requests in one behaviour with repeated retries
MaxTokens   == 2   \* RFID tokens 1..MaxTokens can be scanned
MaxScans    == 2   \* /scan_rfid requests and greeting timers pending at one time

\* ------------------------------------------------------- program constants
VehicleGame  == 2      \* the game whose display order keeps 'Car'
GraceDelay   == 3000   \* delayStartMs passed by retryConnectionCheck
WaitInterval  == 150   \* setTimeout(waitReady, 150)
MaybeInterval == 250   \* setTimeout(maybeStart, 250)
LaunchDelay   == 3000  \* the delay of maybeStart's launch timer
StepDelay     == 200   \* the delays between addStepRow, markRow and displayNext

Games == 1..MaxGame
NoGame == 0            \* selectedGameId = null

WORD_A == "Joystick Controller"
WORD_B == "Hand Gesture Controller"
Modes == {"joystick", "gesture"}

base == <<"Joystick/Gesture", "Nodes", "Car", "Drone">>

\* ---------------------------------------------------------- pure helpers
\* selectedGameId || 1
GameNumber(g) == IF g = NoGame THEN 1 ELSE g

\* const order = (selectedGameId === 2) ? base : base.filter(n => n !== 'Car')
\* (mutant: the filter on 'Car' is lost)
OrderKeepsCar(g) == base
Order(g) ==
  IF g = VehicleGame THEN base ELSE SelectSeq(base, LAMBDA n : n # "Car")

\* (data.steps || []).find(s => s.name === name): index of the first match, 0 if none
Find(steps, name) ==
  LET hits == {i \in DOMAIN steps : steps[i].name = name}
  IN  IF hits = {} THEN 0 ELSE CHOOSE i \in hits : \A j \in hits : i <= j

\* the user-facing name of a step, resolved when the response is processed
Label(name, stepName, mode) ==
  IF name = "Joystick/Gesture"
  THEN (IF mode = "joystick" THEN WORD_A ELSE WORD_B)
  ELSE stepName

\* results.push({ displayName: label, ok: !!step.ok, message: step.message || '' })
Entry(name, step, mode) ==
  [displayName |-> Label(name, step.name, mode), ok |-> step.ok, message |-> step.message]

\* position in `order` of the next name, after position p, that the response holds
\* (the loop's `if (!step) continue`); Len(order) + 1 when the loop is over
NextPos(order, steps, p) ==
  LET cand == {q \in DOMAIN order : q > p /\ Find(steps, order[q]) # 0}
  IN  IF cand = {} THEN Len(order) + 1
      ELSE CHOOSE q \in cand : \A r \in cand : q <= r

\* (mutant: a catalog step the response lacks is recorded as a failed step)
CollectAbsentFails(order, steps, mode, p) ==
  [i \in 1..Len(order) |->
     IF Find(steps, order[i]) = 0
     THEN [displayName |-> order[i], ok |-> FALSE, message |-> "missing"]
     ELSE Entry(order[i], steps[Find(steps, order[i])], mode)]

\* (mutant: the loop runs over the response instead of over `order`)
CollectInResponseOrder(order, steps, mode, p) ==
  LET kept == SelectSeq(steps, LAMBDA s :
                 /\ \E i \in DOMAIN order : order[i] = s.name
                 /\ steps[Find(steps, s.name)] = s)
  IN  [i \in 1..Len(kept) |-> Entry(kept[i].name, kept[i], mode)]

\* (mutant: `filter` in place of `find`: every entry of a name is recorded)
CollectEveryMatch(order, steps, mode, p) ==
  LET M(i) == IF i > Len(order) THEN <<>>
              ELSE SelectSeq(steps, LAMBDA s : s.name = order[i])
      E(i) == [j \in 1..Len(M(i)) |-> Entry(order[i], M(i)[j], mode)]
  IN  E(1) \o E(2) \o E(3) \o E(4)

\* the whole for-loop of runConnectionCheckAndStart with skipStart = true
\* (no await inside the loop): the results array, in the order of `order`
RECURSIVE Collect(_, _, _, _)
Collect(order, steps, mode, p) ==
  LET q == NextPos(order, steps, p)
  IN  IF q > Len(order) THEN <<>>
      ELSE <<Entry(order[q], steps[Find(steps, order[q])], mode)>>
           \o Collect(order, steps, mode, q)

\* window.__initStoredResults = { results: results, success: !!data.success }
\* (`by`: the check run that wrote it; kept for the properties only)
StoredOf(results, data, id) ==
  [set |-> TRUE, results |-> results, success |-> data.success, by |-> id]

NoStored == [set |-> FALSE, results |-> <<>>, success |-> FALSE, by |-> 0]

\* ---------------------------------------------------------------- state
VARIABLES
  page,            \* the .screen that is active
  overlay,         \* #video-overlay is displayed
  videoPlaying,    \* the preview video is playing
  cornerEnabled,   \* #corner-progress has pointer-events: auto
  armed,           \* proceedAfterPreview is registered on #corner-progress ({once: true})
  selectedGameId,
  controllerMode,
  initStarted, initReady, initSuccess,   \* window.__initStarted / __initReady / __initSuccess
  stored,          \* window.__initStoredResults
  runs,            \* the runConnectionCheckAndStart invocations, in the order they started
  nWait, nMaybe,   \* pending setTimeout(waitReady, 150) / setTimeout(maybeStart, 250)
  replays,         \* the showStoredInitResultsSequentially timelines that are running
  launchTimers,    \* per check run: pending 3000 timers set by maybeStart
  launchWrite,     \* per check run: launch sequences awaiting /write_rfid_token
  launchStart,     \* per check run: launch sequences awaiting /api/start_game
  persistReqs,     \* per check run: /write_rfid_token requests issued so far
  startReqs,       \* per check run: /api/start_game requests issued so far
  intervals,       \* completion-poll intervals created by checkGameDone
  rows,            \* the rows of #init-steps
  status,          \* the text of #init-status
  errorShown,      \* #init-error is not hidden
  cycle,           \* bookkeeping since the last card selection (for the properties)
  nProceeds,       \* proceedAfterPreview invocations so far
  timing,          \* the time left on the pending timers of the preview path
  polls,           \* the completion polls started by checkGameDone, one per call
  username, rfidTag,   \* the player of the last successful scan (NoToken: "")
  scanningActive,
  scanInterval,    \* the interval of beginAutoScan is running
  scanReqs,        \* /scan_rfid requests in flight
  greetTimers      \* pending 600 timers that lead to page2

uiVars     == <<page, overlay, videoPlaying, cornerEnabled, armed>>
flagVars   == <<initStarted, initReady, initSuccess>>
launchVars == <<launchTimers, launchWrite, launchStart, persistReqs, startReqs, intervals>>
domVars    == <<rows, status, errorShown>>
scanVars   == <<username, rfidTag, scanningActive, scanInterval, scanReqs, greetTimers>>
vars == <<page, overlay, videoPlaying, cornerEnabled, armed, selectedGameId,
          controllerMode, initStarted, initReady, initSuccess, stored, runs,
          nWait, nMaybe, replays, launchTimers, launchWrite, launchStart,
          persistReqs, startReqs, intervals, rows, status, errorShown, cycle,
          nProceeds, timing, polls,
          username, rfidTag, scanningActive, scanInterval, scanReqs, greetTimers>>

RunIds == 1..(IF MaxRetryChecks > MaxChecks THEN MaxRetryChecks ELSE MaxChecks)

\* ----------------------------------------------------------------- timers
\* Time is counted in units of the greatest common divisor of the delays.
\* timing.on is false where the delays are left open (a timer may then fire at
\* any moment); where it is true, wait, maybe, launch and replay hold the time
\* left on the pending setTimeout of waitReady, of maybeStart, of the launch
\* and of the replay (-1: none pending), and since holds the time that has
\* passed between maybeStart's observing readiness and the launch timer's
\* firing.
RECURSIVE Gcd(_, _)
Gcd(a, b) == IF b = 0 THEN a ELSE Gcd(b, a % b)
TimeUnit == Gcd(Gcd(WaitInterval, MaybeInterval), Gcd(StepDelay, LaunchDelay))
Ticks(delay) == delay \div TimeUnit

TimingOff == [on |-> FALSE, wait |-> -1, maybe |-> -1, launch |-> -1,
              replay |-> -1, since |-> -1, mark |-> -1, delay |-> -1, sinceOk |-> -1]
TimingOn == [TimingOff EXCEPT !.on = TRUE]

\* a timer whose time left is x may fire
Due(x) == timing.on => x = 0

\* the timers one call of waitReady leaves: itself again after 150, or the
\* first 200 timer of the replay it starts
WaitSet(t) ==
  IF ~t.on THEN t
  ELSE IF ~initReady THEN [t EXCEPT !.wait = Ticks(WaitInterval)]
  ELSE [t EXCEPT !.wait = -1,
                 !.replay = IF stored.set /\ stored.results # <<>>
                            THEN Ticks(StepDelay) ELSE -1]

\* (mutant: the launch is scheduled without the grace delay)
MaybeSetNoGrace(t) ==
  IF ~t.on THEN t
  ELSE IF ~initReady THEN [t EXCEPT !.maybe = Ticks(MaybeInterval)]
  ELSE IF ~initSuccess THEN [t EXCEPT !.maybe = -1]
  ELSE [t EXCEPT !.maybe = -1, !.launch = 0, !.since = 0]

\* the timers one call of maybeStart leaves: itself again after 250, or the
\* 3000 launch timer
MaybeSet(t) ==
  IF ~t.on THEN t
  ELSE IF ~initReady THEN [t EXCEPT !.maybe = Ticks(MaybeInterval)]
  ELSE IF ~initSuccess THEN [t EXCEPT !.maybe = -1]
  ELSE [t EXCEPT !.maybe = -1, !.launch = Ticks(LaunchDelay), !.since = 0]

\* the timer a callback of the replay leaves: the next 200 timer, or none
\* after the last displayNext
ReplaySet(t, more) ==
  IF ~t.on THEN t
  ELSE [t EXCEPT !.replay = IF more THEN Ticks(StepDelay) ELSE -1]

\* the timer a step of an immediate-mode run leaves: the 200 timer of the row
\* it has added (531-532), or the delayStartMs timer after the final status
\* (552-554); sinceOk restarts when the status is set to connection OK
RunSet(t, run) ==
  IF ~t.on \/ run.skip THEN t
  ELSE IF run.st = "mark" THEN [t EXCEPT !.mark = Ticks(StepDelay)]
  ELSE IF run.st = "delay"
  THEN [t EXCEPT !.mark = -1, !.delay = Ticks(run.delay), !.sinceOk = 0]
  ELSE [t EXCEPT !.mark = -1]

\* ------------------------------------------------------- server responses
Step(n, ok, msg) == [name |-> n, ok |-> ok, message |-> msg]
NoData == [success |-> FALSE, steps |-> <<>>]

\* every step a response of the single-cycle specification may hold
StepVals ==
  {Step(n, TRUE, "") : n \in {base[i] : i \in DOMAIN base}}
  \cup {Step(n, FALSE, "timeout") : n \in {base[i] : i \in DOMAIN base}}

RECURSIVE SeqsUpTo(_, _)
SeqsUpTo(S, n) ==
  IF n = 0 THEN {<<>>}
  ELSE LET shorter == SeqsUpTo(S, n - 1)
       IN  shorter \cup {Append(s, x) : s \in {t \in shorter : Len(t) = n - 1}, x \in S}

WideResponses ==
  [success : BOOLEAN, steps : SeqsUpTo(StepVals, MaxRespLen)]

\* the responses of the multi-cycle specification: a server whose success flag
\* agrees with its steps
RespOk   == [success |-> TRUE,
             steps |-> <<Step("Nodes", TRUE, ""), Step("Drone", TRUE, "")>>]
RespFail == [success |-> FALSE,
             steps |-> <<Step("Nodes", TRUE, ""), Step("Drone", FALSE, "timeout")>>]
NarrowResponses == {RespOk, RespFail}

\* ---------------------------------------------------------------- DOM
Row(label) == [label |-> label, mark |-> "none", message |-> ""]

\* clearSteps(): host.innerHTML = ''. Rows that running timelines still hold
\* are detached from the document (handle 0).
Detach(seq) == [i \in DOMAIN seq |-> [seq[i] EXCEPT !.row = 0]]

\* markRow(row, ok, msg) on the rows of the document; a detached row is not in it
markRow(rs, h, ok, msg) ==
  IF h = 0 THEN rs
  ELSE [rs EXCEPT ![h] = [@ EXCEPT !.mark = IF ok THEN "ok" ELSE "fail",
                                   !.message = msg]]

\* updateControllerLabels(): the inactive controller label in visible text
\* becomes the active one
Relabel(rs, mode) ==
  LET toWord   == IF mode = "joystick" THEN WORD_A ELSE WORD_B
      fromWord == IF mode = "joystick" THEN WORD_B ELSE WORD_A
  IN  [i \in DOMAIN rs |->
         IF rs[i].label = fromWord THEN [rs[i] EXCEPT !.label = toWord] ELSE rs[i]]

ZeroPerRun == [id \in RunIds |-> 0]
Bump(f, id) == [f EXCEPT ![id] = @ + 1]
Drop(f, id) == [f EXCEPT ![id] = @ - 1]
RemoveAt(seq, k) == [i \in 1..(Len(seq) - 1) |-> IF i < k THEN seq[i] ELSE seq[i + 1]]
Min(a, b) == IF a < b THEN a ELSE b

\* ------------------------------------------------------------ status text
StRunning      == "Running connection checks..."
StFailed       == "Initialisation failed."
StOk           == "Connection OK. Preparing game..."
StStarted      == "Game started. Good luck!"
StLaunchFailed == "Failed to launch the game."
StErrStart     == "Unexpected error during start."
StErrInit      == "Unexpected error during initialisation."

\* ------------------------------------------------------------- check runs
\* One invocation of runConnectionCheckAndStart(delayStartMs, skipStart).
\*   st      "fetch" the request is in flight; "mark" the 200 timer between
\*           addStepRow and markRow is pending; "delay" the delayStartMs timer
\*           is pending; "done" the function has returned
\*   sent    game_number of the request body
\*   game    selectedGameId when the response was processed
\*   out     "stored" once the result and the flags are written, "caught" when
\*           the outer catch ran
NewRun(delay, skip) ==
  [skip |-> skip, delay |-> delay, st |-> "fetch",
   sent |-> GameNumber(selectedGameId), game |-> NoGame, data |-> NoData,
   order |-> <<>>, pos |-> 0, results |-> <<>>, row |-> 0, out |-> "none"]

\* runConnectionCheckAndStart up to its first await: clearSteps(), hide the
\* error box, set the status, issue the request
StartRun(delay, skip) ==
  /\ rows' = <<>>
  /\ errorShown' = FALSE
  /\ status' = StRunning
  /\ runs' = Append(Detach(runs), NewRun(delay, skip))
  /\ replays' = Detach(replays)

\* (mutant: the `if (skipStart) return` of 541-543 is lost)
FinishIgnoresSkip(id, run, results) ==
  LET done == [run EXCEPT !.st = "done", !.results = results, !.pos = 0,
                          !.row = 0, !.out = "stored"]
  IN
  /\ stored' = StoredOf(results, run.data, id)
  /\ initReady' = TRUE
  /\ initSuccess' = run.data.success
  /\ UNCHANGED initStarted
  /\ IF FALSE
     THEN /\ runs' = [runs EXCEPT ![id] = done]
          /\ UNCHANGED <<status, errorShown, launchWrite, persistReqs>>
     ELSE IF ~run.data.success
     THEN /\ status' = StFailed
          /\ errorShown' = TRUE
          /\ runs' = [runs EXCEPT ![id] = done]
          /\ UNCHANGED <<launchWrite, persistReqs>>
     ELSE /\ status' = StOk
          /\ UNCHANGED errorShown
          /\ IF run.delay > 0
             THEN /\ runs' = [runs EXCEPT ![id] = [done EXCEPT !.st = "delay"]]
                  /\ UNCHANGED <<launchWrite, persistReqs>>
             ELSE /\ runs' = [runs EXCEPT ![id] = done]
                  /\ launchWrite' = Bump(launchWrite, id)
                  /\ persistReqs' = Bump(persistReqs, id)

\* (mutant: the new results are pushed onto the object stored before)
FinishMerges(id, run, results) ==
  LET done == [run EXCEPT !.st = "done", !.results = results, !.pos = 0,
                          !.row = 0, !.out = "stored"]
  IN
  /\ stored' = [StoredOf(results, run.data, id) EXCEPT !.results = stored.results \o results]
  /\ initReady' = TRUE
  /\ initSuccess' = run.data.success
  /\ UNCHANGED initStarted
  /\ IF run.skip
     THEN /\ runs' = [runs EXCEPT ![id] = done]
          /\ UNCHANGED <<status, errorShown, launchWrite, persistReqs>>
     ELSE IF ~run.data.success
     THEN /\ status' = StFailed
          /\ errorShown' = TRUE
          /\ runs' = [runs EXCEPT ![id] = done]
          /\ UNCHANGED <<launchWrite, persistReqs>>
     ELSE /\ status' = StOk
          /\ UNCHANGED errorShown
          /\ IF run.delay > 0
             THEN /\ runs' = [runs EXCEPT ![id] = [done EXCEPT !.st = "delay"]]
                  /\ UNCHANGED <<launchWrite, persistReqs>>
             ELSE /\ runs' = [runs EXCEPT ![id] = done]
                  /\ launchWrite' = Bump(launchWrite, id)
                  /\ persistReqs' = Bump(persistReqs, id)

\* the statements after the for-loop: store the result and the flags, then
\* (skipStart = false) the final status and the way to the launch
Finish(id, run, results) ==
  LET done == [run EXCEPT !.st = "done", !.results = results, !.pos = 0,
                          !.row = 0, !.out = "stored"]
  IN
  /\ stored' = StoredOf(results, run.data, id)
  /\ initReady' = TRUE
  /\ initSuccess' = run.data.success
  /\ UNCHANGED initStarted
  /\ IF run.skip
     THEN /\ runs' = [runs EXCEPT ![id] = done]
          /\ UNCHANGED <<status, errorShown, launchWrite, persistReqs>>
     ELSE IF ~run.data.success
     THEN /\ status' = StFailed
          /\ errorShown' = TRUE
          /\ runs' = [runs EXCEPT ![id] = done]
          /\ UNCHANGED <<launchWrite, persistReqs>>
     ELSE /\ status' = StOk
          /\ UNCHANGED errorShown
          /\ IF run.delay > 0
             THEN /\ runs' = [runs EXCEPT ![id] = [done EXCEPT !.st = "delay"]]
                  /\ UNCHANGED <<launchWrite, persistReqs>>
             ELSE /\ runs' = [runs EXCEPT ![id] = done]
                  /\ launchWrite' = Bump(launchWrite, id)
                  /\ persistReqs' = Bump(persistReqs, id)

\* the connectivity-check response arrives and parses: the display order is
\* computed from the CURRENT selectedGameId; skipStart = true runs the whole
\* loop, skipStart = false runs it up to the first await
checkResolves(id, r) ==
  /\ id \in DOMAIN runs
  /\ runs[id].st = "fetch"
  /\ LET order == Order(selectedGameId)
         run == [runs[id] EXCEPT !.data = r, !.game = selectedGameId, !.order = order]
         q == NextPos(order, r.steps, 0)
     IN  IF run.skip
         THEN /\ Finish(id, run, Collect(order, r.steps, controllerMode, 0))
              /\ UNCHANGED rows
         ELSE IF q > Len(order)
         THEN /\ Finish(id, run, <<>>)
              /\ UNCHANGED rows
         ELSE LET e == Entry(order[q], r.steps[Find(r.steps, order[q])], controllerMode)
              IN  /\ rows' = Append(rows, Row(e.displayName))
                  /\ runs' = [runs EXCEPT ![id] =
                               [run EXCEPT !.st = "mark", !.pos = q, !.results = <<e>>,
                                           !.row = Len(rows) + 1]]
                  /\ UNCHANGED <<stored, flagVars, status, errorShown, launchWrite,
                                 persistReqs>>
  /\ UNCHANGED <<uiVars, selectedGameId, controllerMode, nWait, nMaybe, replays,
                 launchTimers, launchStart, startReqs, intervals, cycle, nProceeds>>
  /\ timing' = RunSet(timing, runs'[id])
  /\ UNCHANGED polls
  /\ UNCHANGED scanVars

\* the request rejects, or res.json() rejects: the outer catch
checkRejects(id) ==
  /\ id \in DOMAIN runs
  /\ runs[id].st = "fetch"
  /\ runs' = [runs EXCEPT ![id] = [@ EXCEPT !.st = "done", !.out = "caught"]]
  /\ status' = StErrInit
  /\ errorShown' = TRUE
  /\ UNCHANGED <<uiVars, selectedGameId, controllerMode, flagVars, stored, nWait,
                 nMaybe, replays, launchVars, rows, cycle, nProceeds>>
  /\ UNCHANGED timing
  /\ UNCHANGED polls
  /\ UNCHANGED scanVars

\* skipStart = false: the 200 timer after addStepRow fires: markRow, then the
\* loop goes on to the next step of the response, or ends
runMarkTimer(id) ==
  /\ id \in DOMAIN runs
  /\ runs[id].st = "mark"
  /\ LET run == runs[id]
         steps == run.data.steps
         step == steps[Find(steps, run.order[run.pos])]
         marked == markRow(rows, run.row, step.ok, step.message)
         q == NextPos(run.order, steps, run.pos)
     IN  IF q > Len(run.order)
         THEN /\ rows' = marked
              /\ Finish(id, run, run.results)
         ELSE LET e == Entry(run.order[q], steps[Find(steps, run.order[q])],
                             controllerMode)
              IN  /\ rows' = Append(marked, Row(e.displayName))
                  /\ runs' = [runs EXCEPT ![id] =
                               [run EXCEPT !.pos = q, !.results = Append(@, e),
                                           !.row = Len(marked) + 1]]
                  /\ UNCHANGED <<stored, flagVars, status, errorShown, launchWrite,
                                 persistReqs>>
  /\ UNCHANGED <<uiVars, selectedGameId, controllerMode, nWait, nMaybe, replays,
                 launchTimers, launchStart, startReqs, intervals, cycle, nProceeds>>
  /\ Due(timing.mark)
  /\ timing' = RunSet(timing, runs'[id])
  /\ UNCHANGED polls
  /\ UNCHANGED scanVars

\* skipStart = false: the delayStartMs timer fires: the launch sequence starts
\* with the /write_rfid_token request
runDelayTimer(id) ==
  /\ id \in DOMAIN runs
  /\ runs[id].st = "delay"
  /\ runs' = [runs EXCEPT ![id] = [@ EXCEPT !.st = "done"]]
  /\ launchWrite' = Bump(launchWrite, id)
  /\ persistReqs' = Bump(persistReqs, id)
  /\ UNCHANGED <<uiVars, selectedGameId, controllerMode, flagVars, stored, nWait,
                 nMaybe, replays, launchTimers, launchStart, startReqs, intervals,
                 domVars, cycle, nProceeds>>
  /\ Due(timing.delay)
  /\ timing' = [timing EXCEPT !.delay = -1]
  /\ UNCHANGED polls
  /\ UNCHANGED scanVars

\* ---------------------------------------------------------------- replay
\* (mutant: the steps are taken from the end of the list)
displayNextFromEnd(rp, rs, st0, err0, others, k) ==
  IF rp.idx < Len(rp.steps)
  THEN LET next == [rp EXCEPT !.idx = @ + 1, !.st = "mark", !.row = Len(rs) + 1]
       IN  /\ rows' = Append(rs, Row(rp.steps[Len(rp.steps) - rp.idx].displayName))
           /\ replays' = IF k = 0 THEN Append(others, next)
                         ELSE [others EXCEPT ![k] = next]
           /\ status' = st0
           /\ errorShown' = err0
  ELSE /\ rows' = rs
       /\ replays' = IF k = 0 THEN others ELSE RemoveAt(others, k)
       /\ status' = IF rp.success THEN StOk ELSE StFailed
       /\ errorShown' = IF rp.success THEN err0 ELSE TRUE

\* (mutant: the end of the replay shows the error banner whatever the success)
displayNextBannerAlways(rp, rs, st0, err0, others, k) ==
  IF rp.idx < Len(rp.steps)
  THEN LET next == [rp EXCEPT !.idx = @ + 1, !.st = "mark", !.row = Len(rs) + 1]
       IN  /\ rows' = Append(rs, Row(rp.steps[rp.idx + 1].displayName))
           /\ replays' = IF k = 0 THEN Append(others, next)
                         ELSE [others EXCEPT ![k] = next]
           /\ status' = st0
           /\ errorShown' = err0
  ELSE /\ rows' = rs
       /\ replays' = IF k = 0 THEN others ELSE RemoveAt(others, k)
       /\ status' = StFailed
       /\ errorShown' = TRUE

\* displayNext() of one replay timeline rp (idx steps revealed so far), on the
\* rows rs, with status st0 and error box err0 as they are when it is entered
displayNextOn(rp, rs, st0, err0, others, k) ==
  IF rp.idx < Len(rp.steps)
  THEN LET next == [rp EXCEPT !.idx = @ + 1, !.st = "mark", !.row = Len(rs) + 1]
       IN  /\ rows' = Append(rs, Row(rp.steps[rp.idx + 1].displayName))
           /\ replays' = IF k = 0 THEN Append(others, next)
                         ELSE [others EXCEPT ![k] = next]
           /\ status' = st0
           /\ errorShown' = err0
  ELSE /\ rows' = rs
       /\ replays' = IF k = 0 THEN others ELSE RemoveAt(others, k)
       /\ status' = IF rp.success THEN StOk ELSE StFailed
       /\ errorShown' = IF rp.success THEN err0 ELSE TRUE

\* showStoredInitResultsSequentially(): capture the stored result, clear the
\* rows, hide the error box, reset the status, reveal the first step
showStoredInitResultsSequentially ==
  IF ~stored.set
  THEN UNCHANGED <<replays, rows, status, errorShown, runs>>
  ELSE /\ runs' = Detach(runs)
       /\ displayNextOn([steps |-> stored.results, success |-> stored.success,
                         by |-> stored.by, idx |-> 0, st |-> "next", row |-> 0],
                        <<>>, StRunning, FALSE, Detach(replays), 0)

\* the 200 timer between addStepRow and markRow of replay k fires
replayMarkTimer(k) ==
  /\ k \in DOMAIN replays
  /\ replays[k].st = "mark"
  /\ LET rp == replays[k]
         step == rp.steps[rp.idx]
     IN  /\ rows' = markRow(rows, rp.row, step.ok, step.message)
         /\ replays' = [replays EXCEPT ![k] = [rp EXCEPT !.st = "next"]]
  /\ UNCHANGED <<uiVars, selectedGameId, controllerMode, flagVars, stored, runs,
                 nWait, nMaybe, launchVars, status, errorShown, cycle, nProceeds>>
  /\ Due(timing.replay)
  /\ timing' = ReplaySet(timing, TRUE)
  /\ UNCHANGED polls
  /\ UNCHANGED scanVars

\* the 200 timer setTimeout(displayNext, 200) of replay k fires
displayNext(k) ==
  /\ k \in DOMAIN replays
  /\ replays[k].st = "next"
  /\ displayNextOn(replays[k], rows, status, errorShown, replays, k)
  /\ UNCHANGED <<uiVars, selectedGameId, controllerMode, flagVars, stored, runs,
                 nWait, nMaybe, launchVars, cycle, nProceeds>>
  /\ Due(timing.replay)
  /\ timing' = ReplaySet(timing, replays[k].idx < Len(replays[k].steps))
  /\ UNCHANGED polls
  /\ UNCHANGED scanVars

\* --------------------------------------------------------------- pollers
\* (mutant: waitReady stops polling when ready, without presenting)
waitReadyNoShow(rest) ==
  IF ~initReady
  THEN /\ nWait' = rest + 1
       /\ UNCHANGED <<replays, rows, status, errorShown, runs>>
  ELSE /\ nWait' = rest
       /\ UNCHANGED <<replays, rows, status, errorShown, runs>>

\* one call of waitReady, `rest` other waitReady timers staying pending
waitReadyCall(rest) ==
  IF ~initReady
  THEN /\ nWait' = rest + 1
       /\ UNCHANGED <<replays, rows, status, errorShown, runs>>
  ELSE /\ nWait' = rest
       /\ showStoredInitResultsSequentially

\* one call of maybeStart, `rest` other maybeStart timers staying pending
maybeStartCall(rest) ==
  IF ~initReady
  THEN /\ nMaybe' = rest + 1
       /\ UNCHANGED launchTimers
  ELSE /\ nMaybe' = rest
       /\ IF ~initSuccess
          THEN UNCHANGED launchTimers
          ELSE launchTimers' = Bump(launchTimers, stored.by)

\* setTimeout(waitReady, 150) fires
waitReady ==
  /\ nWait > 0
  /\ waitReadyCall(nWait - 1)
  /\ UNCHANGED <<uiVars, selectedGameId, controllerMode, flagVars, stored, nMaybe,
                 launchVars, cycle, nProceeds>>
  /\ Due(timing.wait)
  /\ timing' = WaitSet(timing)
  /\ UNCHANGED polls
  /\ UNCHANGED scanVars

\* setTimeout(maybeStart, 250) fires
maybeStart ==
  /\ nMaybe > 0
  /\ maybeStartCall(nMaybe - 1)
  /\ UNCHANGED <<uiVars, selectedGameId, controllerMode, flagVars, stored, runs,
                 nWait, replays, launchWrite, launchStart, persistReqs, startReqs,
                 intervals, domVars, cycle, nProceeds>>
  /\ Due(timing.maybe)
  /\ timing' = MaybeSet(timing)
  /\ UNCHANGED polls
  /\ UNCHANGED scanVars

\* ---------------------------------------------------------------- launch
\* (mutant: the /api/start_game request is sent without awaiting the
\* /write_rfid_token request)
launchTimerNoAwait(id) ==
  /\ launchTimers[id] > 0
  /\ launchTimers' = Drop(launchTimers, id)
  /\ launchWrite' = Bump(launchWrite, id)
  /\ persistReqs' = Bump(persistReqs, id)
  /\ launchStart' = Bump(launchStart, id)
  /\ startReqs' = Bump(startReqs, id)
  /\ UNCHANGED <<uiVars, selectedGameId, controllerMode, flagVars, stored, runs,
                 nWait, nMaybe, replays, intervals, domVars, cycle, nProceeds>>
  /\ Due(timing.launch)
  /\ timing' = [timing EXCEPT !.launch = -1]
  /\ UNCHANGED polls
  /\ UNCHANGED scanVars

\* the 3000 timer set by maybeStart fires: fetch('/write_rfid_token')
launchTimerFires(id) ==
  /\ launchTimers[id] > 0
  /\ launchTimers' = Drop(launchTimers, id)
  /\ launchWrite' = Bump(launchWrite, id)
  /\ persistReqs' = Bump(persistReqs, id)
  /\ UNCHANGED <<uiVars, selectedGameId, controllerMode, flagVars, stored, runs,
                 nWait, nMaybe, replays, launchStart, startReqs, intervals, domVars,
                 cycle, nProceeds>>
  /\ Due(timing.launch)
  /\ timing' = [timing EXCEPT !.launch = -1]
  /\ UNCHANGED polls
  /\ UNCHANGED scanVars

\* the /write_rfid_token request settles: "ok" (a response that reports
\* success), "error" (a response that reports failure: an HTTP error status or
\* {success: false}), "reject" (the request itself fails). The response is
\* never read: after "ok" and "error" alike the /api/start_game request
\* follows; after "reject" the catch reports the error
PersistOutcomes == {"ok", "error", "reject"}
persistReplies(id, outcome) ==
  /\ launchWrite[id] > 0
  /\ launchWrite' = Drop(launchWrite, id)
  /\ IF outcome # "reject"
     THEN /\ launchStart' = Bump(launchStart, id)
          /\ startReqs' = Bump(startReqs, id)
          /\ UNCHANGED <<status, errorShown>>
     ELSE /\ status' = StErrStart
          /\ errorShown' = TRUE
          /\ UNCHANGED <<launchStart, startReqs>>
  /\ UNCHANGED <<uiVars, selectedGameId, controllerMode, flagVars, stored, runs,
                 nWait, nMaybe, replays, launchTimers, persistReqs, intervals, rows,
                 cycle, nProceeds>>
  /\ UNCHANGED timing
  /\ UNCHANGED polls
  /\ UNCHANGED scanVars

\* checkGameDone(): one setInterval(1500) whose callback sends /game_done
\*   active   the interval has not been cleared
\*   pending  /game_done requests in flight
\*   sent     /game_done requests issued so far
\*   failed   responses handled by the catch
\*   shown    showLeaderboard() calls
NewPoll == [active |-> TRUE, pending |-> 0, sent |-> 0, failed |-> 0, shown |-> 0]

\* the /api/start_game request settles: "success" ({success: true}),
\* "failure" ({success: false}), "reject" (the request or res.json() rejects)
StartOutcomes == {"success", "failure", "reject"}
startGameReplies(id, outcome) ==
  /\ launchStart[id] > 0
  /\ launchStart' = Drop(launchStart, id)
  /\ IF outcome = "success"
     THEN /\ status' = StStarted
          /\ intervals' = intervals + 1      \* checkGameDone()
          /\ polls' = Append(polls, NewPoll)
          /\ UNCHANGED errorShown
     ELSE /\ status' = IF outcome = "failure" THEN StLaunchFailed ELSE StErrStart
          /\ errorShown' = TRUE
          /\ UNCHANGED <<intervals, polls>>
  /\ UNCHANGED <<uiVars, selectedGameId, controllerMode, flagVars, stored, runs,
                 nWait, nMaybe, replays, launchTimers, launchWrite, persistReqs,
                 startReqs, rows, cycle, nProceeds>>
  /\ UNCHANGED timing
  /\ UNCHANGED scanVars

\* ------------------------------------------------------- completion poll
\* the interval of poll i fires: a /game_done request is sent, whether or not
\* earlier ones have been answered
pollTick(i) ==
  /\ i \in DOMAIN polls
  /\ polls[i].active
  /\ polls[i].sent < MaxPolls
  /\ polls' = [polls EXCEPT ![i] = [@ EXCEPT !.sent = @ + 1, !.pending = @ + 1]]
  /\ UNCHANGED <<uiVars, selectedGameId, controllerMode, flagVars, stored, runs,
                 nWait, nMaybe, replays, launchVars, domVars, cycle, nProceeds, timing>>
  /\ UNCHANGED scanVars

\* (mutant: the catch leaves the interval running)
pollRepliesKeepsTimer(i, outcome) ==
  /\ i \in DOMAIN polls
  /\ polls[i].pending > 0
  /\ LET p == [polls[i] EXCEPT !.pending = @ - 1]
     IN  CASE outcome = "done" ->
                /\ polls' = [polls EXCEPT ![i] = [p EXCEPT !.active = FALSE, !.shown = @ + 1]]
                /\ page' = "page16"
           [] outcome = "running" ->
                /\ polls' = [polls EXCEPT ![i] = p]
                /\ UNCHANGED page
           [] OTHER ->
                /\ polls' = [polls EXCEPT ![i] = [p EXCEPT !.failed = @ + 1]]
                /\ UNCHANGED page
  /\ UNCHANGED <<overlay, videoPlaying, cornerEnabled, armed, selectedGameId,
                 controllerMode, flagVars, stored, runs, nWait, nMaybe, replays,
                 launchVars, domVars, cycle, nProceeds, timing>>
  /\ UNCHANGED scanVars

\* a /game_done request of poll i settles: "done" ({done: true}): the interval
\* is cleared and showLeaderboard() goes to page16; "running" (a body whose
\* `done` is falsy): nothing; "reject" (the request fails or the body is not
\* JSON): the catch clears the interval
PollOutcomes == {"done", "running", "reject"}
pollReplies(i, outcome) ==
  /\ i \in DOMAIN polls
  /\ polls[i].pending > 0
  /\ LET p == [polls[i] EXCEPT !.pending = @ - 1]
     IN  CASE outcome = "done" ->
                /\ polls' = [polls EXCEPT ![i] = [p EXCEPT !.active = FALSE, !.shown = @ + 1]]
                /\ page' = "page16"
           [] outcome = "running" ->
                /\ polls' = [polls EXCEPT ![i] = p]
                /\ UNCHANGED page
           [] OTHER ->
                /\ polls' = [polls EXCEPT ![i] = [p EXCEPT !.active = FALSE, !.failed = @ + 1]]
                /\ UNCHANGED page
  /\ UNCHANGED <<overlay, videoPlaying, cornerEnabled, armed, selectedGameId,
                 controllerMode, flagVars, stored, runs, nWait, nMaybe, replays,
                 launchVars, domVars, cycle, nProceeds, timing>>
  /\ UNCHANGED scanVars

\* ------------------------------------------------------------ RFID scanning
NoToken == 0           \* username = "", rfidTag = ""
Tokens == 1..MaxTokens

\* the interval of beginAutoScan fires with scanningActive true: a /scan_rfid
\* request is sent (with scanningActive false the callback returns at once)
scanTick ==
  /\ scanInterval
  /\ scanningActive
  /\ scanReqs + greetTimers < MaxScans
  /\ scanReqs' = scanReqs + 1
  /\ UNCHANGED <<username, rfidTag, scanningActive, scanInterval, greetTimers>>
  /\ UNCHANGED <<uiVars, selectedGameId, controllerMode, flagVars, stored, runs,
                 nWait, nMaybe, replays, launchVars, domVars, cycle, nProceeds,
                 timing, polls>>

\* a /scan_rfid request settles: with {success: true} of token t the player
\* is stored and the 600 timer of the greeting is set; t = NoToken stands for
\* {success: false} and for a rejected request (the catch only logs)
scanReplies(t) ==
  /\ scanReqs > 0
  /\ scanReqs' = scanReqs - 1
  /\ IF t # NoToken
     THEN /\ username' = t
          /\ rfidTag' = t
          /\ greetTimers' = greetTimers + 1
     ELSE UNCHANGED <<username, rfidTag, greetTimers>>
  /\ UNCHANGED <<scanningActive, scanInterval>>
  /\ UNCHANGED <<uiVars, selectedGameId, controllerMode, flagVars, stored, runs,
                 nWait, nMaybe, replays, launchVars, domVars, cycle, nProceeds,
                 timing, polls>>

\* the 600 timer of a successful scan fires: the greeting is written and
\* goToPage('page2')
greetTimerFires ==
  /\ greetTimers > 0
  /\ greetTimers' = greetTimers - 1
  /\ page' = "page2"
  /\ UNCHANGED <<username, rfidTag, scanningActive, scanInterval, scanReqs>>
  /\ UNCHANGED <<overlay, videoPlaying, cornerEnabled, armed, selectedGameId,
                 controllerMode, flagVars, stored, runs, nWait, nMaybe, replays,
                 launchVars, domVars, cycle, nProceeds, timing, polls>>

\* confirmPlayer(), the button of page2
confirmPlayer ==
  /\ page = "page2"
  /\ scanningActive' = FALSE
  /\ scanInterval' = FALSE
  /\ page' = "page_choose_game"
  /\ UNCHANGED <<username, rfidTag, scanReqs, greetTimers>>
  /\ UNCHANGED <<overlay, videoPlaying, cornerEnabled, armed, selectedGameId,
                 controllerMode, flagVars, stored, runs, nWait, nMaybe, replays,
                 launchVars, domVars, cycle, nProceeds, timing, polls>>

\* window.backToHome(): page1, the old interval is cleared and
\* beginAutoScan() starts a new one
backToHome ==
  /\ page # "page1"
  /\ page' = "page1"
  /\ scanningActive' = TRUE
  /\ scanInterval' = TRUE
  /\ UNCHANGED <<username, rfidTag, scanReqs, greetTimers>>
  /\ UNCHANGED <<overlay, videoPlaying, cornerEnabled, armed, selectedGameId,
                 controllerMode, flagVars, stored, runs, nWait, nMaybe, replays,
                 launchVars, domVars, cycle, nProceeds, timing, polls>>

\* the state confirmPlayer leaves when no scan is pending
Confirmed ==
  /\ username = 1
  /\ rfidTag = 1
  /\ scanningActive = FALSE
  /\ scanInterval = FALSE
  /\ scanReqs = 0
  /\ greetTimers = 0

\* ------------------------------------------------------------ user actions
\* (mutant: __initReady is not reset)
cardClickKeepsReady(g) ==
  /\ page = "page_choose_game"
  /\ selectedGameId' = g
  /\ page' = "page_confirm"
  /\ initStarted' = FALSE
  /\ initSuccess' = FALSE
  /\ cycle' = [base |-> Len(runs), opens |-> 0, checks |-> 0]
  /\ UNCHANGED <<overlay, videoPlaying, cornerEnabled, armed, controllerMode, stored,
                 initReady, runs, nWait, nMaybe, replays, launchVars, domVars,
                 nProceeds>>
  /\ UNCHANGED timing
  /\ UNCHANGED polls
  /\ UNCHANGED scanVars

\* (mutant: __initStarted is not reset)
cardClickKeepsStarted(g) ==
  /\ page = "page_choose_game"
  /\ selectedGameId' = g
  /\ page' = "page_confirm"
  /\ initReady' = FALSE
  /\ initSuccess' = FALSE
  /\ cycle' = [base |-> Len(runs), opens |-> 0, checks |-> 0]
  /\ UNCHANGED <<overlay, videoPlaying, cornerEnabled, armed, controllerMode, stored,
                 initStarted, runs, nWait, nMaybe, replays, launchVars, domVars,
                 nProceeds>>
  /\ UNCHANGED timing
  /\ UNCHANGED polls
  /\ UNCHANGED scanVars

\* click on a game card (the cards are on page_choose_game)
cardClick(g) ==
  /\ page = "page_choose_game"
  /\ selectedGameId' = g
  /\ page' = "page_confirm"
  /\ initStarted' = FALSE
  /\ initReady' = FALSE
  /\ initSuccess' = FALSE
  /\ cycle' = [base |-> Len(runs), opens |-> 0, checks |-> 0]
  /\ UNCHANGED <<overlay, videoPlaying, cornerEnabled, armed, controllerMode, stored,
                 runs, nWait, nMaybe, replays, launchVars, domVars, nProceeds>>
  /\ UNCHANGED timing
  /\ UNCHANGED polls
  /\ UNCHANGED scanVars

\* (mutant: the check is started without looking at __initStarted)
openOverlayNoGuard ==
  /\ page = "page_confirm"
  /\ ~overlay
  /\ overlay' = TRUE
  /\ cornerEnabled' = FALSE
  /\ videoPlaying' = TRUE
  /\ Len(runs) < MaxChecks
  /\ initStarted' = TRUE
  /\ initReady' = FALSE
  /\ initSuccess' = FALSE
  /\ StartRun(0, TRUE)
  /\ cycle' = [cycle EXCEPT !.opens = Min(2, @ + 1), !.checks = @ + 1]
  /\ UNCHANGED <<page, armed, selectedGameId, controllerMode, stored, nWait, nMaybe,
                 launchVars, nProceeds>>
  /\ UNCHANGED timing
  /\ UNCHANGED polls
  /\ UNCHANGED scanVars

\* (mutant: a call that finds __initStarted set still resets the other flags)
openOverlayResetsFlags ==
  /\ page = "page_confirm"
  /\ ~overlay
  /\ overlay' = TRUE
  /\ cornerEnabled' = FALSE
  /\ videoPlaying' = TRUE
  /\ initStarted' = TRUE
  /\ initReady' = FALSE
  /\ initSuccess' = FALSE
  /\ IF ~initStarted
     THEN /\ Len(runs) < MaxChecks
          /\ StartRun(0, TRUE)
          /\ cycle' = [cycle EXCEPT !.opens = Min(2, @ + 1), !.checks = @ + 1]
     ELSE /\ UNCHANGED <<runs, replays, domVars>>
          /\ cycle' = [cycle EXCEPT !.opens = Min(2, @ + 1)]
  /\ UNCHANGED <<page, armed, selectedGameId, controllerMode, stored, nWait, nMaybe,
                 launchVars, nProceeds>>
  /\ UNCHANGED timing
  /\ UNCHANGED polls
  /\ UNCHANGED scanVars

\* click on #confirm-game-btn
openOverlay ==
  /\ page = "page_confirm"
  /\ ~overlay
  /\ overlay' = TRUE
  /\ cornerEnabled' = FALSE
  /\ videoPlaying' = TRUE
  /\ IF ~initStarted
     THEN /\ Len(runs) < MaxChecks
          /\ initStarted' = TRUE
          /\ initReady' = FALSE
          /\ initSuccess' = FALSE
          /\ StartRun(0, TRUE)
          /\ cycle' = [cycle EXCEPT !.opens = Min(2, @ + 1), !.checks = @ + 1]
     ELSE /\ UNCHANGED <<flagVars, runs, replays, domVars>>
          /\ cycle' = [cycle EXCEPT !.opens = Min(2, @ + 1)]
  /\ UNCHANGED <<page, armed, selectedGameId, controllerMode, stored, nWait, nMaybe,
                 launchVars, nProceeds>>
  /\ UNCHANGED timing
  /\ UNCHANGED polls
  /\ UNCHANGED scanVars

\* click on #close-video
closeOverlay ==
  /\ overlay
  /\ overlay' = FALSE
  /\ videoPlaying' = FALSE
  /\ UNCHANGED <<page, cornerEnabled, armed, selectedGameId, controllerMode,
                 flagVars, stored, runs, nWait, nMaybe, replays, launchVars, domVars,
                 cycle, nProceeds>>
  /\ UNCHANGED timing
  /\ UNCHANGED polls
  /\ UNCHANGED scanVars

\* the preview video plays to its end: the corner button is enabled and
\* proceedAfterPreview is registered on it (once)
videoEnded ==
  /\ overlay
  /\ videoPlaying
  /\ videoPlaying' = FALSE
  /\ cornerEnabled' = TRUE
  /\ armed' = TRUE
  /\ UNCHANGED <<page, overlay, selectedGameId, controllerMode, flagVars, stored,
                 runs, nWait, nMaybe, replays, launchVars, domVars, cycle, nProceeds>>
  /\ UNCHANGED timing
  /\ UNCHANGED polls
  /\ UNCHANGED scanVars

\* click on the enabled corner button: closeOverlay(), goToPage, then the
\* first, synchronous calls of waitReady and maybeStart
proceedAfterPreview ==
  /\ overlay
  /\ cornerEnabled
  /\ armed
  /\ nProceeds < MaxProceeds
  /\ nProceeds' = nProceeds + 1
  /\ armed' = FALSE
  /\ overlay' = FALSE
  /\ videoPlaying' = FALSE
  /\ page' = "page_initializing"
  /\ waitReadyCall(nWait)
  /\ maybeStartCall(nMaybe)
  /\ UNCHANGED <<cornerEnabled, selectedGameId, controllerMode, flagVars, stored,
                 launchWrite, launchStart, persistReqs, startReqs, intervals, cycle>>
  /\ timing' = MaybeSet(WaitSet(timing))
  /\ UNCHANGED polls
  /\ UNCHANGED scanVars

\* backToChoose(), from the confirm page or the initialising page
backToChoose ==
  /\ \/ page = "page_confirm" /\ ~overlay
     \/ page = "page_initializing"
  /\ page' = "page_choose_game"
  /\ UNCHANGED <<overlay, videoPlaying, cornerEnabled, armed, selectedGameId,
                 controllerMode, flagVars, stored, runs, nWait, nMaybe, replays,
                 launchVars, domVars, cycle, nProceeds>>
  /\ UNCHANGED timing
  /\ UNCHANGED polls
  /\ UNCHANGED scanVars

\* (mutant: the flags are left as they are)
retryKeepsFlags ==
  /\ page = "page_initializing"
  /\ errorShown
  /\ Len(runs) < MaxRetryChecks
  /\ StartRun(GraceDelay, FALSE)
  /\ cycle' = [cycle EXCEPT !.opens = 0, !.checks = 0]
  /\ UNCHANGED <<uiVars, selectedGameId, controllerMode, flagVars, stored, nWait,
                 nMaybe, launchVars, nProceeds>>
  /\ UNCHANGED timing
  /\ UNCHANGED polls
  /\ UNCHANGED scanVars

\* retryConnectionCheck(), offered with the error box of the initialising page
retryConnectionCheck ==
  /\ page = "page_initializing"
  /\ errorShown
  /\ Len(runs) < MaxRetryChecks
  /\ initStarted' = FALSE
  /\ initReady' = FALSE
  /\ initSuccess' = FALSE
  /\ StartRun(GraceDelay, FALSE)
  /\ cycle' = [cycle EXCEPT !.opens = 0, !.checks = 0]
  /\ UNCHANGED <<uiVars, selectedGameId, controllerMode, stored, nWait, nMaybe,
                 launchVars, nProceeds>>
  /\ UNCHANGED timing
  /\ UNCHANGED polls
  /\ UNCHANGED scanVars

\* click on #logo-toggle: the mode flips and updateControllerLabels() rewrites
\* the visible text
controllerToggle ==
  /\ controllerMode' = IF controllerMode = "joystick" THEN "gesture" ELSE "joystick"
  /\ rows' = IF page = "page_initializing" THEN Relabel(rows, controllerMode') ELSE rows
  /\ UNCHANGED <<uiVars, selectedGameId, flagVars, stored, runs, nWait, nMaybe,
                 replays, launchVars, status, errorShown, cycle, nProceeds>>
  /\ UNCHANGED timing
  /\ UNCHANGED polls
  /\ UNCHANGED scanVars

\* ------------------------------------------------------------ specifications
InitCommon ==
  /\ overlay = FALSE
  /\ videoPlaying = FALSE
  /\ cornerEnabled = FALSE
  /\ armed = FALSE
  /\ initStarted = FALSE
  /\ initReady = FALSE
  /\ initSuccess = FALSE
  /\ stored = NoStored
  /\ runs = <<>>
  /\ nWait = 0
  /\ nMaybe = 0
  /\ replays = <<>>
  /\ launchTimers = ZeroPerRun
  /\ launchWrite = ZeroPerRun
  /\ launchStart = ZeroPerRun
  /\ persistReqs = ZeroPerRun
  /\ startReqs = ZeroPerRun
  /\ intervals = 0
  /\ rows = <<>>
  /\ status = ""
  /\ errorShown = FALSE
  /\ cycle = [base |-> 0, opens |-> 0, checks |-> 0]
  /\ nProceeds = 0
  /\ polls = <<>>

\* the player has confirmed the token: the game slider is shown
Init ==
  /\ InitCommon
  /\ Confirmed
  /\ timing = TimingOff
  /\ page = "page_choose_game"
  /\ selectedGameId = NoGame
  /\ controllerMode = "joystick"

\* the steps every specification shares: timers and network replies of the
\* preview path and of the launch
Background ==
  \/ waitReady
  \/ maybeStart
  \/ \E id \in RunIds : checkRejects(id)
  \/ \E id \in RunIds : launchTimerFires(id)
  \/ \E id \in RunIds, o \in PersistOutcomes : persistReplies(id, o)
  \/ \E id \in RunIds, o \in StartOutcomes : startGameReplies(id, o)
  \/ \E k \in 1..MaxProceeds : replayMarkTimer(k)
  \/ \E k \in 1..MaxProceeds : displayNext(k)

Next ==
  \/ \E g \in Games : cardClick(g)
  \/ openOverlay
  \/ closeOverlay
  \/ videoEnded
  \/ proceedAfterPreview
  \/ backToChoose
  \/ Len(runs) < MaxChecks /\ retryConnectionCheck
  \/ \E id \in RunIds, r \in NarrowResponses : checkResolves(id, r)
  \/ \E id \in RunIds : runMarkTimer(id)
  \/ \E id \in RunIds : runDelayTimer(id)
  \/ Background

Spec == Init /\ [][Next]_vars

\* One selection cycle: a card has just been selected (any game, either
\* controller mode); the server may answer anything.
InitCycle ==
  /\ InitCommon
  /\ Confirmed
  /\ timing = TimingOff
  /\ page = "page_confirm"
  /\ selectedGameId \in Games
  /\ controllerMode \in Modes

NextCycle ==
  \/ openOverlay
  \/ closeOverlay
  \/ videoEnded
  \/ proceedAfterPreview
  \/ controllerToggle
  \/ \E id \in RunIds, r \in WideResponses : checkResolves(id, r)
  \/ Background

SpecCycle == InitCycle /\ [][NextCycle]_vars

\* One selection cycle of the preview path with the delays of the code. One
\* unit of time passes when no timer is due; the server answers at any moment.
Dec(x) == IF x > 0 THEN x - 1 ELSE x
\* the time left of every timer
Pending == {timing.wait, timing.maybe, timing.launch, timing.replay,
            timing.mark, timing.delay}
tick ==
  /\ timing.on
  /\ \A x \in Pending : x # 0
  /\ \E x \in Pending : x > 0
  /\ timing' = [on |-> TRUE, wait |-> Dec(timing.wait), maybe |-> Dec(timing.maybe),
                 launch |-> Dec(timing.launch), replay |-> Dec(timing.replay),
                 since |-> IF timing.launch > 0 THEN timing.since + 1
                           ELSE timing.since,
                 mark |-> Dec(timing.mark), delay |-> Dec(timing.delay),
                 sinceOk |-> IF timing.delay > 0 THEN timing.sinceOk + 1
                             ELSE timing.sinceOk]
  /\ UNCHANGED <<uiVars, selectedGameId, controllerMode, flagVars, stored, runs,
                 nWait, nMaybe, replays, launchVars, domVars, cycle, nProceeds, polls>>
  /\ UNCHANGED scanVars

\* the responses of the timed specification: every catalog step, all ok or
\* with the vehicle step failing, and the empty response
RespAll(ok) ==
  [success |-> ok,
   steps |-> [i \in DOMAIN base |->
                Step(base[i], ok \/ base[i] # "Car",
                     IF ok \/ base[i] # "Car" THEN "" ELSE "timeout")]]
TimedResponses == {RespAll(TRUE), RespAll(FALSE), [success |-> TRUE, steps |-> <<>>]}

InitTimed ==
  /\ InitCommon
  /\ Confirmed
  /\ timing = TimingOn
  /\ page = "page_confirm"
  /\ selectedGameId \in Games
  /\ controllerMode = "joystick"

Timers ==
  \/ waitReady
  \/ maybeStart
  \/ \E id \in RunIds : launchTimerFires(id)
  \/ \E k \in 1..MaxProceeds : replayMarkTimer(k)
  \/ \E k \in 1..MaxProceeds : displayNext(k)

NextTimed ==
  \/ openOverlay
  \/ closeOverlay
  \/ videoEnded
  \/ proceedAfterPreview
  \/ \E id \in RunIds, r \in TimedResponses : checkResolves(id, r)
  \/ \E id \in RunIds : checkRejects(id)
  \/ \E id \in RunIds, o \in PersistOutcomes : persistReplies(id, o)
  \/ \E id \in RunIds, o \in StartOutcomes : startGameReplies(id, o)
  \/ Timers
  \/ tick

\* the event loop runs a timer that is due, and time passes
SpecTimed ==
  /\ InitTimed
  /\ [][NextTimed]_vars
  /\ WF_vars(Timers)
  /\ WF_vars(tick)

\* The preview path with the delays of the code over several selections: the
\* user may leave the initialising screen and select a card again; the server
\* answers every check with all steps ok, at any moment.
InitTimedNav ==
  /\ InitCommon
  /\ Confirmed
  /\ timing = TimingOn
  /\ page = "page_choose_game"
  /\ selectedGameId = NoGame
  /\ controllerMode = "joystick"

NextTimedNav ==
  \/ \E g \in Games : cardClick(g)
  \/ openOverlay
  \/ videoEnded
  \/ proceedAfterPreview
  \/ backToChoose
  \/ \E id \in RunIds : checkResolves(id, RespAll(TRUE))
  \/ Timers
  \/ tick

SpecTimedNav == InitTimedNav /\ [][NextTimedNav]_vars

\* One selection with the retry path, with the delays of the code: after an
\* error on the initialising screen the user may retry, which runs the check
\* in immediate mode (rows animated by the run, launch after delayStartMs).
RunTimers ==
  \/ \E id \in RunIds : runMarkTimer(id)
  \/ \E id \in RunIds : runDelayTimer(id)

NextTimedRetry ==
  \/ openOverlay
  \/ videoEnded
  \/ proceedAfterPreview
  \/ retryConnectionCheck
  \/ \E id \in RunIds, r \in TimedResponses : checkResolves(id, r)
  \/ \E id \in RunIds : checkRejects(id)
  \/ \E id \in RunIds, o \in PersistOutcomes : persistReplies(id, o)
  \/ \E id \in RunIds, o \in StartOutcomes : startGameReplies(id, o)
  \/ Timers
  \/ RunTimers
  \/ tick

SpecTimedRetry ==
  /\ InitTimed
  /\ [][NextTimedRetry]_vars
  /\ WF_vars(Timers)
  /\ WF_vars(RunTimers)
  /\ WF_vars(tick)

\* One selection up to the end of the game: the check, the preview, a retry
\* after an error, the launch and the completion poll; the check answers with
\* every step ok or is rejected.
InitPoll ==
  /\ InitCommon
  /\ Confirmed
  /\ timing = TimingOff
  /\ page = "page_confirm"
  /\ selectedGameId \in Games
  /\ controllerMode = "joystick"

NextPoll ==
  \/ openOverlay
  \/ videoEnded
  \/ proceedAfterPreview
  \/ Len(runs) < MaxChecks /\ retryConnectionCheck
  \/ \E id \in RunIds : checkResolves(id, RespAll(TRUE))
  \/ \E id \in RunIds : checkRejects(id)
  \/ \E id \in RunIds, o \in PersistOutcomes : persistReplies(id, o)
  \/ \E id \in RunIds, o \in StartOutcomes : startGameReplies(id, o)
  \/ Timers
  \/ RunTimers
  \/ \E i \in 1..MaxChecks : pollTick(i)
  \/ \E i \in 1..MaxChecks, o \in PollOutcomes : pollReplies(i, o)

SpecPoll == InitPoll /\ [][NextPoll]_vars

\* The console from window.onload: scanning, the confirmation of the player,
\* the game selection and the way back to the home page.
InitScan ==
  /\ InitCommon
  /\ timing = TimingOff
  /\ page = "page1"
  /\ selectedGameId = NoGame
  /\ controllerMode = "joystick"
  /\ username = NoToken
  /\ rfidTag = NoToken
  /\ scanningActive = TRUE
  /\ scanInterval = TRUE
  /\ scanReqs = 0
  /\ greetTimers = 0

NextScan ==
  \/ scanTick
  \/ \E t \in Tokens \cup {NoToken} : scanReplies(t)
  \/ greetTimerFires
  \/ confirmPlayer
  \/ backToHome
  \/ \E g \in Games : cardClick(g)
  \/ backToChoose

SpecScan == InitScan /\ [][NextScan]_vars

\* ------------------------------------------------------------- properties
InFlight == {id \in DOMAIN runs : runs[id].st = "fetch"}
Failing(results) == \E i \in DOMAIN results : ~results[i].ok
HasCar(results) == \E i \in DOMAIN results : results[i].displayName = "Car"
RespHas(data, name) == Find(data.steps, name) # 0

\* C1: for every check run (one connectivity-check request and the outcome it
\* stored) the launch sequence, which begins with the /write_rfid_token
\* request, is started at most once.
C1_LaunchAtMostOncePerCycle ==
  \A id \in RunIds : persistReqs[id] <= 1

\* C2: when the connectivity-check request of a run rejects, the step that
\* handles the rejection (the last step of that run) leaves initReady true,
\* initSuccess false, a stored result with success false, and the error box
\* shown.
C2_RejectedCheckBecomesReady ==
  [][\A id \in DOMAIN runs :
       (runs[id].out = "none" /\ runs'[id].out = "caught")
         => /\ initReady'
            /\ ~initSuccess'
            /\ stored'.set /\ ~stored'.success
            /\ errorShown']_vars

\* C3: within one selection cycle, once the check request has been answered
\* and the run has returned (whatever the outcome), every waitReady or
\* maybeStart timer still pending finds initReady true at its next call, so
\* it does not reschedule itself.
C3_PollLoopsStop ==
  (runs # <<>> /\ runs[1].st = "done" /\ nWait + nMaybe > 0) => initReady

\* C4: when a check run that was started before the latest card selection
\* (a stale run) stores its result, initReady, initSuccess and the stored
\* result stay as the new cycle left them.
C4_StaleCompletionIgnored ==
  [][\A id \in DOMAIN runs :
       (id <= cycle.base /\ runs[id].out = "none" /\ runs'[id].out = "stored")
         => UNCHANGED <<initReady, initSuccess, stored>>]_vars

\* C5: the stored success is true exactly when every step of the stored
\* (filtered, ordered) list is ok; with an empty list it is true only if the
\* raw response reports success.
C5_SuccessIffAllStepsOk ==
  stored.set =>
    IF stored.results = <<>>
    THEN stored.success => runs[stored.by].data.success
    ELSE stored.success <=> ~Failing(stored.results)

\* C6: a check run whose step list holds a failed step has success false, and
\* no /write_rfid_token or /api/start_game request is ever issued for it.
C6_NoLaunchWithFailedStep ==
  \A id \in DOMAIN runs :
    (runs[id].out = "stored" /\ Failing(runs[id].results))
      => /\ ~runs[id].data.success
         /\ persistReqs[id] = 0
         /\ startReqs[id] = 0

\* the catalog name behind a displayed label, and its place in the catalog
NameOf(label) == IF label \in {WORD_A, WORD_B} THEN "Joystick/Gesture" ELSE label
BasePos(name) == CHOOSE i \in DOMAIN base : base[i] = name
RespPos(data, label) == Find(data.steps, NameOf(label))

\* a step of a replay timeline, its start included
PollEnds ==
  \/ waitReady /\ nWait' = nWait - 1
  \/ proceedAfterPreview /\ nWait' = nWait
ReplayStep ==
  \/ PollEnds
  \/ \E k \in 1..MaxProceeds : replayMarkTimer(k) \/ displayNext(k)
Requests == <<Len(runs), persistReqs, startReqs>>

\* C7 (as claimed): the stored step list of a check run holds the vehicle
\* step 'Car' exactly when the game selected at the time the response is
\* processed is the vehicle game.
C7_CarIffVehicleGame ==
  \A id \in DOMAIN runs :
    runs[id].out = "stored" =>
      (HasCar(runs[id].results) <=> runs[id].game = VehicleGame)

\* C7 (amended): the display order of a check run holds 'Car' exactly when
\* the selected game is the vehicle game, and the stored step list holds it
\* exactly when, in addition, the response holds a 'Car' step.
C7_CarOnlyForVehicleGame ==
  \A id \in DOMAIN runs :
    runs[id].out = "stored" =>
      /\ (\E i \in DOMAIN runs[id].order : runs[id].order[i] = "Car")
           <=> runs[id].game = VehicleGame
      /\ HasCar(runs[id].results)
           <=> (runs[id].game = VehicleGame /\ RespHas(runs[id].data, "Car"))

\* C7 witness: a check for a game without vehicle whose response held a 'Car'
\* step has stored its result
C7_Witness ==
  \E id \in DOMAIN runs :
    /\ runs[id].out = "stored"
    /\ runs[id].game # VehicleGame
    /\ RespHas(runs[id].data, "Car")
    /\ runs[id].results # <<>>

\* replay k reveals its next step
Reveals(k) == displayNext(k) /\ replays[k].idx < Len(replays[k].steps)

\* the step replay k reveals comes later in the server response than the
\* step it revealed before
NextInResponseOrder(k) ==
  LET rp == replays[k]
      data == runs[rp.by].data
  IN  rp.idx >= 1 =>
        RespPos(data, rp.steps[rp.idx].displayName)
          < RespPos(data, rp.steps[rp.idx + 1].displayName)

\* the step replay k reveals is the next one of its list: its row is appended
\* to the rows, and it comes later in the catalog than the step before
NextInCatalogOrder(k) ==
  LET rp == replays[k]
  IN  /\ rows' = Append(rows, Row(rp.steps[rp.idx + 1].displayName))
      /\ rp.idx >= 1 =>
           BasePos(NameOf(rp.steps[rp.idx].displayName))
             < BasePos(NameOf(rp.steps[rp.idx + 1].displayName))

\* a replay that starts takes the complete stored list and reveals its first
\* step on cleared rows
StartsWithFirstStep ==
  Len(replays') = Len(replays) + 1 =>
    LET rp == replays'[Len(replays')]
    IN  /\ rp.steps = stored.results
        /\ rp.steps = runs[rp.by].results
        /\ rp.idx = 1
        /\ rows' = <<Row(rp.steps[1].displayName)>>

\* C8 (as claimed): a replay issues no network request, and it reveals the
\* steps in the order in which they appear in the server response.
C8_ReplayKeepsResponseOrder ==
  [][/\ ReplayStep => UNCHANGED Requests
     /\ \A k \in DOMAIN replays : Reveals(k) => NextInResponseOrder(k)]_vars

\* C8 (amended): a replay issues no network request; it takes the complete
\* step list of the stored result and reveals its steps one by one from the
\* first, in catalog order (controller, Nodes, Car, Drone), whatever the order
\* of the steps in the response.
C8_ReplayKeepsCatalogOrder ==
  [][/\ ReplayStep => UNCHANGED Requests
     /\ StartsWithFirstStep
     /\ \A k \in DOMAIN replays : Reveals(k) => NextInCatalogOrder(k)]_vars

\* C8 witness: a replay has revealed two steps that the response listed in
\* the opposite order
C8_Witness ==
  \E k \in DOMAIN replays :
    /\ replays[k].idx = 2
    /\ Len(rows) = 2
    /\ RespPos(runs[replays[k].by].data, rows[1].label)
         > RespPos(runs[replays[k].by].data, rows[2].label)

\* C9: showStoredInitResultsSequentially is invoked only when initReady is
\* true and the check of the current cycle (the latest run) has written the
\* stored result, and the replay it starts holds the complete step list of
\* that result.
C9_PresentsOnlyWhenCheckHasWritten ==
  [][PollEnds =>
       /\ initReady
       /\ runs # <<>>
       /\ runs[Len(runs)].out = "stored"
       /\ stored.by = Len(runs)
       /\ \/ stored.results = <<>>
          \/ /\ Len(replays') = Len(replays) + 1
             /\ replays'[Len(replays')].steps = runs[Len(runs)].results]_vars

\* C10 (as claimed): at most one connectivity-check request is in flight.
C10_OneCheckInFlight ==
  Cardinality(InFlight) <= 1

\* C10 (amended): between one card selection and the next card selection or
\* retry, openOverlay starts at most one check, however often it is invoked.
C10_OneCheckPerSelection ==
  cycle.checks <= 1

\* C10 witness: openOverlay has been invoked twice since the last card
\* selection and one check was started
C10_Witness ==
  cycle.opens = 2 /\ cycle.checks = 1

\* C11: a step that issues the request of a retry (a run with skipStart =
\* false starts) leaves initStarted, initReady and initSuccess all false: the
\* handler resets them before it calls runConnectionCheckAndStart, whatever
\* they were.
C11_RetryResetsFlags ==
  [][(Len(runs') = Len(runs) + 1 /\ ~runs'[Len(runs')].skip)
       => /\ runs'[Len(runs')].st = "fetch"
          /\ ~initStarted' /\ ~initReady' /\ ~initSuccess']_vars

\* C11 witness: the request of a retry is in flight with the three flags
\* false, after an earlier check of the same selection had stored its result
\* (and with it initReady = true)
C11_Witness ==
  \E id \in DOMAIN runs :
    /\ ~runs[id].skip /\ runs[id].st = "fetch"
    /\ id > 1 /\ id - 1 > cycle.base /\ runs[id - 1].out = "stored"
    /\ ~initStarted /\ ~initReady /\ ~initSuccess

\* C12: for every check run, each /api/start_game request was issued when a
\* /write_rfid_token request of that run had settled (so the start requests
\* and the persist requests still pending never outnumber the persist
\* requests issued), and a completion poll begins only in the step that
\* receives a start-game response reporting success.
C12_LaunchStepsInOrder ==
  [][/\ \A id \in RunIds : startReqs'[id] + launchWrite'[id] <= persistReqs'[id]
     /\ intervals' # intervals =>
          /\ intervals' = intervals + 1
          /\ \E id \in RunIds : startGameReplies(id, "success")
          /\ \A id \in RunIds : ~startGameReplies(id, "failure")
                                /\ ~startGameReplies(id, "reject")]_vars

\* C12 witness: a launch sequence went through both requests and completion
\* polling has begun
C12_Witness ==
  /\ intervals > 0
  /\ status = StStarted
  /\ \E id \in RunIds : persistReqs[id] > 0 /\ startReqs[id] > 0 /\ launchStart[id] = 0

\* C13: a step in which the persist-token request fails (an error response or
\* a rejection) issues no start-game request; a step in which either launch
\* request fails shows the error box, starts no completion poll and issues
\* no further launch request.
C13_LaunchStopsOnFailure ==
  [][\A id \in RunIds :
       /\ (persistReplies(id, "error") \/ persistReplies(id, "reject"))
            => /\ startReqs' = startReqs
               /\ persistReqs' = persistReqs
               /\ intervals' = intervals
               /\ errorShown'
       /\ (startGameReplies(id, "failure") \/ startGameReplies(id, "reject"))
            => /\ startReqs' = startReqs
               /\ persistReqs' = persistReqs
               /\ intervals' = intervals
               /\ errorShown']_vars

\* C15: while a stored result is being presented, every row of the controller
\* step shows the word of the controller mode in effect now, not the word of
\* the mode in effect when the check processed the response.
C15_LabelFollowsModeAtPresentation ==
  \A k \in DOMAIN replays :
    replays[k].row # 0 =>
      \A i \in DOMAIN rows :
        rows[i].label \in {WORD_A, WORD_B}
          => rows[i].label = Label("Joystick/Gesture", "", controllerMode)

\* C17: while the initialising screen is not shown (the user has navigated
\* away from it), no step starts a presentation of a stored result and no
\* step issues a /write_rfid_token request.
C17_NoOrphanedCallbacks ==
  [][(page # "page_initializing" /\ page' # "page_initializing")
       => /\ Len(replays') <= Len(replays)
          /\ persistReqs' = persistReqs]_vars

\* C18: whenever initReady is true a stored result exists and initSuccess
\* equals its success.
C18_ReadyMirrorsStoredResult ==
  initReady => (stored.set /\ initSuccess = stored.success)

\* C18 witness: a pending maybeStart poller is about to observe initReady =
\* true with a successful stored result that a stale run (started before the
\* latest card selection) has written
C18_Witness ==
  /\ initReady /\ initSuccess /\ stored.set /\ stored.success
  /\ nMaybe > 0
  /\ stored.by <= cycle.base

\* C19: the step of a card selection leaves initStarted, initReady and
\* initSuccess all false.
C19_SelectionResetsFlags ==
  [][(\E g \in Games : cardClick(g))
       => (~initStarted' /\ ~initReady' /\ ~initSuccess')]_vars

\* C19 witness: a card has just been selected, the three flags are false, and
\* the check of the selection before had stored its result (which had set
\* initStarted and initReady)
C19_Witness ==
  /\ page = "page_confirm" /\ cycle.opens = 0
  /\ cycle.base > 0 /\ runs[cycle.base].out = "stored"
  /\ stored.set /\ stored.success
  /\ ~initStarted /\ ~initReady /\ ~initSuccess

\* C20: the first confirmation after a card selection finds initStarted
\* false, sets it and starts one deferred check (skipStart = true); every
\* later confirmation leaves the three flags unchanged and starts no check;
\* so once a confirmation has happened exactly one check was started.
C20_OneCheckPerConfirmedSelection ==
  [][/\ openOverlay =>
          IF cycle.opens = 0
          THEN /\ ~initStarted /\ initStarted'
               /\ Len(runs') = Len(runs) + 1
               /\ runs'[Len(runs')].skip /\ runs'[Len(runs')].st = "fetch"
          ELSE /\ UNCHANGED flagVars
               /\ Len(runs') = Len(runs)
     /\ cycle'.opens >= 1 => cycle'.checks = 1]_vars

\* C20 witness: two confirmations have happened since the card selection, one
\* check was started, and its result is stored with initReady true
C20_Witness ==
  /\ cycle.opens = 2 /\ cycle.checks = 1
  /\ overlay /\ initStarted /\ initReady
  /\ runs # <<>> /\ stored.by = Len(runs)

\* C14: on the preview path, once the check of a game without vehicle has
\* stored a successful result and the user has proceeded to the initialising
\* screen, the first request of the launch is eventually issued, and 3000
\* time units or more have then passed since maybeStart observed readiness.
C14_LaunchAfterGraceDelay ==
  (/\ selectedGameId # VehicleGame
   /\ page = "page_initializing"
   /\ initReady /\ initSuccess
   /\ stored.set /\ stored.success)
    ~> (/\ \E id \in RunIds : persistReqs[id] > 0
        /\ timing.since >= Ticks(LaunchDelay))

\* C14 witness: for a game without vehicle whose response held all four steps,
\* the stored list leaves the vehicle step out and the launch request has
\* been issued 3000 time units after maybeStart observed readiness
C14_Witness ==
  /\ selectedGameId # VehicleGame
  /\ page = "page_initializing"
  /\ stored.set /\ stored.success
  /\ RespHas(runs[stored.by].data, "Car") /\ ~HasCar(stored.results)
  /\ persistReqs[stored.by] = 1
  /\ timing.since = Ticks(LaunchDelay)

\* C16: the step that issues the first request of a launch (the launch timer
\* of the preview path fires) finds the replay started and ended: no
\* waitReady poll is pending and no replay timeline is running.
C16_LaunchAfterReplayEnds ==
  [][\A id \in RunIds :
       persistReqs'[id] > persistReqs[id] => (nWait = 0 /\ replays = <<>>)]_vars

\* ------------------------------------------------------------ C26 - C28
\* the check runs whose outcome was stored, and the names of a step list
StoredRuns == {id \in DOMAIN runs : runs[id].out = "stored"}
Names(results) == [i \in DOMAIN results |-> NameOf(results[i].displayName)]

\* C26: a catalog step that the response does not hold produces no entry in
\* the step list of the cycle, and its absence does not turn the cycle's
\* success to false: the stored success is the response's success flag.
C26_AbsentStepLeavesNoTrace ==
  \A id \in StoredRuns :
    LET run == runs[id]
    IN  /\ \A n \in DOMAIN base :
             ~RespHas(run.data, base[n])
               => \A i \in DOMAIN run.results : Names(run.results)[i] # base[n]
        /\ (stored.by = id => stored.success = run.data.success)

\* a successful response that lacks a step of the catalog of its game has
\* been stored: the list is shorter than the catalog and success is true
C26_Witness ==
  \E id \in StoredRuns :
    /\ stored.by = id /\ stored.success /\ initSuccess
    /\ \E n \in DOMAIN runs[id].order : ~RespHas(runs[id].data, runs[id].order[n])
    /\ Len(runs[id].results) = 1
    /\ Len(runs[id].results) < Len(runs[id].order)

\* C27: the stored step list is a subsequence of the fixed catalog order
\* controller, nodes, vehicle, drone, whatever the order of the steps in the
\* server's response.
C27_StoredListFollowsCatalog ==
  \A id \in StoredRuns :
    \A i, j \in DOMAIN runs[id].results :
      i < j => BasePos(Names(runs[id].results)[i]) < BasePos(Names(runs[id].results)[j])

\* a response that lists the drone before the nodes has been stored with
\* both steps
C27_Witness ==
  \E id \in StoredRuns :
    /\ Len(runs[id].data.steps) = 2
    /\ runs[id].data.steps[1].name = "Drone"
    /\ runs[id].data.steps[2].name = "Nodes"
    /\ Len(runs[id].results) = 2

\* C28: within the stored step list of one cycle no catalog step appears
\* more than once, even when the response holds several entries of one name.
C28_NoStepTwice ==
  \A id \in StoredRuns :
    \A i, j \in DOMAIN runs[id].results :
      Names(runs[id].results)[i] = Names(runs[id].results)[j] => i = j

\* a response with two entries named 'Nodes' (one passing, one failing) has
\* been stored
C28_Witness ==
  \E id \in StoredRuns :
    /\ Len(runs[id].data.steps) = 2
    /\ runs[id].data.steps[1].name = "Nodes"
    /\ runs[id].data.steps[2].name = "Nodes"
    /\ runs[id].data.steps[1].ok # runs[id].data.steps[2].ok
    /\ Len(runs[id].results) = 1


\* ------------------------------------------------------------------ C22
\* C22: in deferred mode (skipStart = true) runConnectionCheckAndStart
\* reveals and marks no step row and never issues a persist-token or
\* start-game request; when its response completes, its only effect on the
\* session state is the write of the stored result, initReady and
\* initSuccess.
C22_DeferredRunOnlyStores ==
  [][\A id \in DOMAIN runs :
       runs[id].skip =>
         /\ runs'[id].row = 0
         /\ runs'[id].st \in {"fetch", "done"}
         /\ (runs[id].st = "fetch" /\ runs'[id].out = "stored") =>
              /\ stored' = StoredOf(runs'[id].results, runs'[id].data, id)
              /\ initReady'
              /\ initSuccess' = runs'[id].data.success
              /\ UNCHANGED <<domVars, launchVars, uiVars, selectedGameId,
                             controllerMode, initStarted, nWait, nMaybe, replays>>]_vars

\* a deferred run has stored a result with steps: no row is shown, the
\* status is still the one set when the request was issued, and no launch
\* request has been issued
C22_Witness ==
  \E id \in DOMAIN runs :
    /\ runs[id].skip /\ runs[id].out = "stored" /\ stored.by = id
    /\ Len(runs[id].results) > 0 /\ runs[id].data.success
    /\ rows = <<>> /\ status = StRunning
    /\ \A j \in RunIds : persistReqs[j] = 0 /\ startReqs[j] = 0


\* ------------------------------------------------------------------ C29
\* C29: a stored result is never modified after it is stored: a later cycle
\* replaces the whole stored result and never merges into it, and a replay
\* that captured the earlier result keeps reading the earlier steps and
\* success unchanged.
C29_StoredResultIsImmutable ==
  [][/\ \A id \in StoredRuns :
          /\ runs'[id].results = runs[id].results
          /\ runs'[id].data = runs[id].data
     /\ stored' # stored =>
          \E id \in DOMAIN runs :
            /\ runs[id].out = "none" /\ runs'[id].out = "stored"
            /\ stored' = StoredOf(runs'[id].results, runs'[id].data, id)
     /\ \A k \in DOMAIN replays' :
          /\ replays'[k].steps = runs'[replays'[k].by].results
          /\ replays'[k].success = runs'[replays'[k].by].data.success]_vars

\* a replay that captured the result of check 1 is still running after
\* check 2 has replaced the stored result by a different one
C29_Witness ==
  \E k \in DOMAIN replays :
    /\ replays[k].by = 1 /\ stored.by = 2
    /\ replays[k].idx > 0
    /\ stored.results # replays[k].steps
    /\ stored.success # replays[k].success


\* ------------------------------------------------------------------ C25
\* the mark a presented step carries
MarkOf(step) == IF step.ok THEN "ok" ELSE "fail"
\* rows 1..n show the first n steps of a replay, all marked
MarkedUpTo(rs, steps, n) ==
  \A i \in 1..n : rs[i].mark = MarkOf(steps[i])

\* C25: during a replay each step is revealed before it is marked and step i
\* is marked before step i+1 is revealed; the final state is surfaced only
\* after the last step has been marked, and it is the error banner exactly
\* when the stored success is false, otherwise the ready-to-launch status.
C25_ReplayRevealsThenMarks ==
  [][/\ \A k \in DOMAIN replays' :
          LET rp == replays'[k]
          IN  rp.row # 0 =>
                /\ Len(rows') = rp.idx /\ rp.row = rp.idx
                /\ MarkedUpTo(rows', rp.steps, rp.idx - 1)
                /\ rp.st = "mark" => rows'[rp.idx].mark = "none"
                /\ rp.st = "next" => rows'[rp.idx].mark = MarkOf(rp.steps[rp.idx])
                /\ status' = StRunning /\ ~errorShown'
     /\ \A k \in DOMAIN replays :
          Len(replays') < Len(replays) =>
            /\ replays[k].st = "next" /\ replays[k].idx = Len(replays[k].steps)
            /\ Len(rows') = Len(replays[k].steps)
            /\ MarkedUpTo(rows', replays[k].steps, Len(replays[k].steps))
            /\ errorShown' = ~replays[k].success
            /\ status' = IF replays[k].success THEN StOk ELSE StFailed
     /\ (PollEnds /\ stored.set /\ stored.results = <<>>) =>
            /\ errorShown' = ~stored.success
            /\ status' = IF stored.success THEN StOk ELSE StFailed]_vars

\* a replay of a failed result has ended: every step is shown and marked,
\* the vehicle step as failed, and the error banner is up
C25_Witness ==
  /\ nProceeds > 0 /\ nWait = 0 /\ replays = <<>>
  /\ stored.set /\ ~stored.success
  /\ Len(rows) = Len(stored.results) /\ Len(rows) > 1
  /\ MarkedUpTo(rows, stored.results, Len(rows))
  /\ \E i \in DOMAIN rows : rows[i].mark = "fail"
  /\ errorShown /\ status = StFailed


\* ------------------------------------------------------------------ C21
\* the step list on the screen is the stored result, each step once and marked
Presented ==
  /\ Len(rows) = Len(stored.results)
  /\ MarkedUpTo(rows, stored.results, Len(rows))
  /\ \A i \in DOMAIN rows : rows[i].label = stored.results[i].displayName

\* C21: the check and the preview may finish in either order: whether the
\* result was stored before or after the user proceeded, once both have
\* happened the stored result is presented, once for the invocation of
\* proceedAfterPreview: the waitReady poll has ended, the replay has run to
\* its end and the step list shows each stored step once.
C21_StoredResultPresentedOnce ==
  (nProceeds > 0 /\ initReady /\ stored.set)
    ~> (nWait = 0 /\ replays = <<>> /\ Presented)

\* the result was stored after the user proceeded: its presentation is under
\* way (waitReady has seen the flag) while maybeStart has not polled yet
C21_Witness ==
  /\ nProceeds > 0 /\ initReady /\ stored.set
  /\ nWait = 0 /\ nMaybe = 1
  /\ replays # <<>> /\ replays[1].idx > 0


\* ------------------------------------------------------------------ C24
\* C24: after a launch failure (the start-game response says success: false;
\* the status then reads 'Failed to launch the game.') the sequence halts: no
\* persist-token or start-game request is issued, and a connectivity check is
\* issued only by a step of the user (retryConnectionCheck, or the
\* confirmation of a new selection); a launch request is only ever issued
\* for a check whose response was stored with success true.
C24_LaunchFailureHalts ==
  [][/\ status = StLaunchFailed =>
          /\ persistReqs' = persistReqs
          /\ startReqs' = startReqs
          /\ Len(runs') > Len(runs) => (retryConnectionCheck \/ openOverlay)
     /\ \A id \in RunIds :
          persistReqs'[id] > persistReqs[id] =>
            /\ id \in DOMAIN runs
            /\ runs[id].out = "stored" /\ runs[id].data.success]_vars


\* ------------------------------------------------------------------ C23
\* C23: on the retry path (immediate mode) every step of the response is
\* revealed and then marked, in order, before initReady is set; on success
\* a launch request is issued 3000 time units or more after the status was
\* (last) set to connection OK, and on failure no launch request is issued.
C23_RetryAnimatesThenLaunches ==
  [][\A id \in DOMAIN runs :
       ~runs[id].skip =>
         LET run == runs'[id]
         IN  /\ run.st = "mark" =>
                  /\ ~initReady'
                  /\ Len(rows') = Len(run.results) /\ run.row = Len(rows')
                  /\ MarkedUpTo(rows', run.results, Len(rows') - 1)
                  /\ rows'[Len(rows')].mark = "none"
             /\ (runs[id].out = "none" /\ run.out = "stored") =>
                  /\ ~initReady /\ initReady'
                  /\ run.results = Collect(run.order, run.data.steps, controllerMode, 0)
                  /\ Len(rows') = Len(run.results)
                  /\ MarkedUpTo(rows', run.results, Len(rows'))
             /\ persistReqs'[id] > persistReqs[id] =>
                  /\ runs[id].out = "stored" /\ runs[id].data.success
                  /\ timing.sinceOk >= Ticks(GraceDelay)]_vars

\* ------------------------------------------------------------------ C30
\* C30: after a completion-poll request of a launch has failed, the poll
\* timer of that launch is cleared and no further completion-poll request is
\* issued for that launch.
C30_PollStopsOnFailure ==
  [][\A i \in DOMAIN polls :
       /\ polls'[i].failed > 0 => ~polls'[i].active
       /\ polls[i].failed > 0 => polls'[i].sent = polls[i].sent]_vars

\* a request of a poll has failed while a later request of the same poll
\* was in flight, and more requests than were sent remained allowed
C30_Witness ==
  \E i \in DOMAIN polls :
    /\ polls[i].failed = 1 /\ polls[i].pending = 1
    /\ polls[i].sent = 2 /\ polls[i].sent < MaxPolls
    /\ ~polls[i].active /\ polls[i].shown = 0


\* ------------------------------------------------------------------ C32
\* body of the /api/start_game request: game_number: selectedGameId || 1,
\* read when the request is sent
StartGameNumber == GameNumber(selectedGameId)

\* C32: the game_number sent in a start-game request equals the game_number
\* sent in the connectivity-check request whose success enabled that launch,
\* even if another game card is selected during the grace delay or while the
\* launch requests are in flight.
C32_StartsTheCheckedGame ==
  [][\A id \in RunIds :
       startReqs'[id] > startReqs[id] =>
         /\ id \in DOMAIN runs
         /\ StartGameNumber = runs[id].sent]_vars

\* ------------------------------------------------------------------ C34
\* C34: for each successful launch the leaderboard is shown at most once:
\* after one completion-poll response has reported done, no other response
\* of the same poll (one that was in flight included) calls showLeaderboard
\* again.
C34_LeaderboardShownOnce ==
  \A i \in DOMAIN polls : polls[i].shown <= 1

\* ------------------------------------------------------------------ C35
\* C35: the vehicle-step filter applied to a check response uses the game id
\* that was sent in the request of that check: a game card selected while
\* the request is in flight does not change which steps of the response are
\* kept.
C35_FilterUsesRequestedGame ==
  [][\A id \in DOMAIN runs :
       (runs[id].st = "fetch" /\ runs'[id].st # "fetch" /\ runs'[id].out # "caught") =>
         /\ runs'[id].order = Order(runs[id].sent)
         /\ (runs'[id].out = "stored" =>
               (HasCar(runs'[id].results)
                  <=> (runs[id].sent = VehicleGame /\ RespHas(runs'[id].data, "Car"))))]_vars


\* ------------------------------------------------------------------ C33
\* the immediate-mode runs that are animating the step list
Animating(rs) == {id \in DOMAIN rs : ~rs[id].skip /\ rs[id].st = "mark"}

\* C33: at any moment at most one rendering timeline writes to the step
\* list: a stored-result replay and an immediate-mode (retry) run are never
\* active at the same time, a running timeline never has its rows wiped by
\* the clearSteps of another, and no presentation is started for a result
\* whose steps the immediate-mode run has already revealed.
C33_OneRenderingTimeline ==
  [][/\ Len(replays') + Cardinality(Animating(runs')) <= 1
     /\ \A k \in DOMAIN replays' : replays'[k].row # 0
     /\ \A id \in Animating(runs') : runs'[id].row # 0
     /\ (PollEnds /\ stored.set /\ stored.results # <<>>) => runs[stored.by].skip]_vars


\* ------------------------------------------------------------------ C31
\* C31: after confirmPlayer has been called and until backToHome starts the
\* next scan cycle (scanningActive is false all the while), username and
\* rfidTag keep their values and no step navigates to the token-confirmation
\* page, even if a scan request was in flight when confirmPlayer was called.
C31_ConfirmedPlayerIsKept ==
  [][(~scanningActive /\ ~scanningActive') =>
       /\ username' = username
       /\ rfidTag' = rfidTag
       /\ page' = "page2" => page = "page2"]_vars

====
